---- MODULE Spec2Model ----
(***************************************************************************)
(* A model of the data-loading layer of lightning-flash:                   *)
(*   - the path based source (find_classes, make_dataset,                  *)
(*     PathsDataSource.load_data / predict_load_data),                     *)
(*   - the bounding-box sources (COCODataSource and                        *)
(*     ObjectDetectionFiftyOneDataSource),                                 *)
(*   - the stage-aware dispatch of DataSource.generate_dataset.            *)
(* Strings are sequences of code points, so that str.lower, str.endswith   *)
(* and the ordering used by sorted() are computed and not assumed.         *)
(***************************************************************************)
EXTENDS Integers, Sequences, FiniteSets, TLC

\* Optional values: None is the empty tuple, Some(x) a one-element tuple
None == <<>>
Some(x) == <<x>>

(***************************************************************************)
(* Strings                                                                 *)
(***************************************************************************)
SEP == <<47>>          \* "/"
ROOT == <<114>>        \* "r", the directory handed to the source

\* str.lower on one code point
LowerChar(c) == IF c >= 65 /\ c <= 90 THEN c + 32 ELSE c

\* str.lower
Lower(s) == [i \in 1..Len(s) |-> LowerChar(s[i])]

\* str.endswith(suffix) for one suffix
EndsWith(s, suf) ==
    /\ Len(suf) <= Len(s)
    /\ \A i \in 1..Len(suf) : s[Len(s) - Len(suf) + i] = suf[i]

\* str.__lt__: lexicographic on code points, a proper prefix is smaller
StrLess(a, b) ==
    \E k \in 1..(Len(b)) :
        /\ k <= Len(a) + 1
        /\ \A i \in 1..(k - 1) : a[i] = b[i]
        /\ (k = Len(a) + 1 \/ (k <= Len(a) /\ a[k] < b[k]))

\* list.__lt__ on lists of strings
StrListLess(a, b) ==
    \E k \in 1..(Len(b)) :
        /\ k <= Len(a) + 1
        /\ \A i \in 1..(k - 1) : a[i] = b[i]
        /\ (k = Len(a) + 1 \/ (k <= Len(a) /\ StrLess(a[k], b[k])))

\* os.path.join(a, b) for a relative b
Join(a, b) == a \o SEP \o b

\* sorted() / list.sort() on a list of strings (stable insertion sort)
RECURSIVE InsertStr(_, _)
InsertStr(x, s) ==
    IF s = <<>> THEN <<x>>
    ELSE IF StrLess(x, Head(s)) THEN <<x>> \o s
    ELSE <<Head(s)>> \o InsertStr(x, Tail(s))

RECURSIVE SortStrs(_)
SortStrs(s) ==
    IF s = <<>> THEN <<>>
    ELSE InsertStr(s[Len(s)], SortStrs(SubSeq(s, 1, Len(s) - 1)))

RECURSIVE Concat(_)
Concat(ss) == IF ss = <<>> THEN <<>> ELSE Head(ss) \o Concat(Tail(ss))

Range(s) == {s[i] : i \in 1..Len(s)}

(***************************************************************************)
(* Bounds and input pools                                                  *)
(***************************************************************************)
MaxNodes == 4          \* files and directories below the root
MaxLoads == 2          \* loads of one tree that are compared

\* names of files and directories: ".A", "B", "a"
Names == {<<46, 65>>, <<66>>, <<97>>}

\* PathsDataSource(extensions=...): no allow-list, or (".a", "b")
ExtensionPool == {None, Some(<<(<<46, 97>>), (<<98>>)>>)}

\* PathsDataSource(labels=...): the default, no labels given
LabelsPool == {None}

\* is_valid_file arguments of make_dataset: none, or one of two predicates
ValidPool == {"None", "any", "dotfile"}

Stages == {"train", "val", "test", "predict"}

(***************************************************************************)
(* State                                                                   *)
(***************************************************************************)
VARIABLES
    fs,            \* directory path (list of names) -> its entries, in the
                   \* order the filesystem currently enumerates them
    extensions,    \* PathsDataSource.extensions
    labels,        \* SequenceDataSource.labels
    labels_state,  \* the LabelsState of the source (None when unset)
    loads,         \* results of the loads made so far
    direct,        \* result of a direct call of find_classes or make_dataset
    coco,          \* the annotation file handed to COCODataSource
    stage,         \* the running stage of the detection source
    collection,    \* the sample collection handed to the FiftyOne source
    det_out,       \* result of the detection source's load_data (None before)
    source_cls,    \* the class of a DataSource instance: the hooks it defines
    history,       \* the generate_dataset calls made on that instance
    self_obj,      \* a DataSource instance: its class and its __dict__
    hook_body,     \* what the load hooks of that instance do when run
    gen_log,       \* stage and hook of each generate_dataset call on it
    last_call,     \* the last generate_dataset call on it, in full
    tuple_out,     \* the to_datasets call on it
    sample_src,    \* the class whose load_sample serves a dataset
    descriptors,   \* the descriptors that dataset holds (the objects)
    sample_log,    \* the load_sample calls made on them
    style          \* the call of a style transfer entry point

pathVars == <<fs, extensions, labels, labels_state, loads, direct>>
detVars == <<coco, stage, collection, det_out>>
hookVars == <<source_cls, history>>
instVars == <<self_obj, hook_body, gen_log, last_call, tuple_out>>
sampleVars == <<sample_src, descriptors, sample_log>>
styleVars == <<style>>
vars == <<pathVars, detVars, hookVars, instVars, sampleVars, styleVars>>

(***************************************************************************)
(* The filesystem                                                          *)
(***************************************************************************)
File(n) == [name |-> n, isdir |-> FALSE]
Dir(n) == [name |-> n, isdir |-> TRUE]

EntryNames(ents) == [i \in 1..Len(ents) |-> ents[i].name]

\* number of files and directories below the root
NodeCount(fsv) ==
    Cardinality(UNION {{<<d, i>> : i \in 1..Len(fsv[d])} : d \in DOMAIN fsv})

\* the string of a directory path below ROOT
RECURSIVE PathStr(_)
PathStr(d) == IF d = <<>> THEN ROOT ELSE Join(PathStr(SubSeq(d, 1, Len(d) - 1)), d[Len(d)])

\* os.path.isdir of a directory path below ROOT
isdir(fsv, d) == d \in DOMAIN fsv

\* os.scandir / os.listdir: the entries in the filesystem's current order
scandir(fsv, d) == fsv[d]

\* os.walk(top, followlinks=True), top-down
RECURSIVE walk(_, _)
walk(fsv, top) ==
    LET ents == scandir(fsv, top)
        dirs == EntryNames(SelectSeq(ents, LAMBDA e : e.isdir))
        nondirs == EntryNames(SelectSeq(ents, LAMBDA e : ~e.isdir))
    IN  <<[root |-> PathStr(top), dirs |-> dirs, files |-> nondirs]>>
        \o Concat([i \in 1..Len(dirs) |-> walk(fsv, Append(top, dirs[i]))])

\* tuple.__lt__ on the (root, dirs, files) tuples of os.walk
WalkLess(a, b) ==
    \/ StrLess(a.root, b.root)
    \/ a.root = b.root /\ StrListLess(a.dirs, b.dirs)
    \/ a.root = b.root /\ a.dirs = b.dirs /\ StrListLess(a.files, b.files)

RECURSIVE InsertWalk(_, _)
InsertWalk(x, s) ==
    IF s = <<>> THEN <<x>>
    ELSE IF WalkLess(x, Head(s)) THEN <<x>> \o s
    ELSE <<Head(s)>> \o InsertWalk(x, Tail(s))

\* sorted(os.walk(...))
RECURSIVE SortWalk(_)
SortWalk(s) ==
    IF s = <<>> THEN <<>>
    ELSE InsertWalk(s[Len(s)], SortWalk(SubSeq(s, 1, Len(s) - 1)))

(***************************************************************************)
(* flash/core/data/data_source.py                                          *)
(***************************************************************************)
\* has_file_allowed_extension without filename.lower()
has_file_allowed_extension_case_sensitive(filename, exts) ==
    \E i \in 1..Len(exts) : EndsWith(filename, exts[i])

\* has_file_allowed_extension(filename, extensions), extensions a tuple
has_file_allowed_extension(filename, exts) ==
    \E i \in 1..Len(exts) : EndsWith(Lower(filename), exts[i])

\* the is_valid_file predicates a caller may pass to make_dataset
IsValid(valid, path) ==
    CASE valid = "any" -> TRUE
      [] valid = "dotfile" -> \E i \in 1..Len(path) : path[i] = 46
      [] OTHER -> FALSE

\* a set as a list, as iterating dict.keys() gives it
RECURSIVE SetToSeq(_)
SetToSeq(S) ==
    IF S = {} THEN <<>>
    ELSE LET x == CHOOSE y \in S : TRUE IN <<x>> \o SetToSeq(S \ {x})

\* the instances of one walked directory: for fname in sorted(fnames)
DirInstances(w, class_index, exts, valid) ==
    LET fnames == SortStrs(w.files)
        paths == [i \in 1..Len(fnames) |-> Join(w.root, fnames[i])]
        ok(path) == IF exts # None THEN has_file_allowed_extension(path, exts[1])
                    ELSE IsValid(valid, path)
        kept == SelectSeq(paths, ok)
    IN  [i \in 1..Len(kept) |-> <<kept[i], class_index>>]

\* the instances of one class: for root, _, fnames in sorted(os.walk(...))
ClassInstances(fsv, target_class, class_index, exts, valid) ==
    IF ~isdir(fsv, <<target_class>>) THEN <<>>
    ELSE LET ws == SortWalk(walk(fsv, <<target_class>>))
         IN  Concat([i \in 1..Len(ws) |-> DirInstances(ws[i], class_index, exts, valid)])

\* the directories make_dataset enumerates
ClassWalked(fsv, target_class) ==
    IF ~isdir(fsv, <<target_class>>) THEN <<>>
    ELSE LET ws == walk(fsv, <<target_class>>) IN [i \in 1..Len(ws) |-> ws[i].root]

\* make_dataset that only rejects the case of both options missing
make_dataset_both_allowed(fsv, class_to_idx, exts, valid) ==
    LET both_none == exts = None /\ valid = "None"
    IN  IF both_none
        THEN [raised |-> "ValueError", instances |-> <<>>, walked |-> <<>>]
        ELSE LET keys == SortStrs(SetToSeq(DOMAIN class_to_idx))
             IN  [raised |-> "no",
                  instances |-> Concat([i \in 1..Len(keys) |->
                      ClassInstances(fsv, keys[i], class_to_idx[keys[i]], exts, valid)]),
                  walked |-> Concat([i \in 1..Len(keys) |-> ClassWalked(fsv, keys[i])])]

\* make_dataset(directory, class_to_idx, extensions, is_valid_file)
make_dataset(fsv, class_to_idx, exts, valid) ==
    LET both_none == exts = None /\ valid = "None"
        both_something == exts # None /\ valid # "None"
    IN  IF both_none \/ both_something
        THEN [raised |-> "ValueError", instances |-> <<>>, walked |-> <<>>]
        ELSE LET keys == SortStrs(SetToSeq(DOMAIN class_to_idx))
             IN  [raised |-> "no",
                  instances |-> Concat([i \in 1..Len(keys) |->
                      ClassInstances(fsv, keys[i], class_to_idx[keys[i]], exts, valid)]),
                  walked |-> Concat([i \in 1..Len(keys) |-> ClassWalked(fsv, keys[i])])]

\* find_classes without classes.sort()
find_classes_unsorted(fsv) ==
    LET classes == EntryNames(SelectSeq(scandir(fsv, <<>>), LAMBDA d : d.isdir))
    IN  [classes |-> classes,
         class_to_idx |-> [c \in Range(classes) |->
                              (CHOOSE i \in 1..Len(classes) : classes[i] = c) - 1]]

\* PathsDataSource.find_classes(dir)
find_classes(fsv) ==
    LET listed == EntryNames(SelectSeq(scandir(fsv, <<>>), LAMBDA d : d.isdir))
        classes == SortStrs(listed)
    IN  [classes |-> classes,
         class_to_idx |-> [c \in Range(classes) |->
                              (CHOOSE i \in 1..Len(classes) : classes[i] = c) - 1]]

NoMeta == [k \in {} |-> 0]

\* SequenceDataSource.predict_load_data(data)
SequencePredictLoadData(data) == [i \in 1..Len(data) |-> [input |-> data[i]]]

\* predict_load_data that returns every listed entry, unfiltered
predict_load_data_unfiltered(fsv, exts, state) ==
    LET listed == EntryNames(scandir(fsv, <<>>))
        data == [i \in 1..Len(listed) |-> Join(ROOT, listed[i])]
    IN  [raised |-> "no", data |-> SequencePredictLoadData(data),
         meta |-> NoMeta, state |-> state]

\* PathsDataSource.predict_load_data(data) for a directory
predict_load_data(fsv, exts, state) ==
    LET listed == EntryNames(scandir(fsv, <<>>))
        data == [i \in 1..Len(listed) |-> Join(ROOT, listed[i])]
        samples == SequencePredictLoadData(data)
    IN  IF exts = None /\ samples # <<>>
        THEN [raised |-> "TypeError", data |-> <<>>, meta |-> NoMeta, state |-> state]
        ELSE [raised |-> "no",
              data |-> SelectSeq(samples,
                          LAMBDA sample : has_file_allowed_extension(sample.input, exts[1])),
              meta |-> NoMeta, state |-> state]

\* PathsDataSource.load_data(data, dataset) for a directory
load_data(fsv, exts, state) ==
    LET found == find_classes(fsv)
        classes == found.classes
        meta == ("num_classes" :> Len(classes))
        made == make_dataset(fsv, found.class_to_idx, exts, "None")
    IN  IF classes = <<>> THEN predict_load_data(fsv, exts, state)
        ELSE IF made.raised # "no"
        THEN [raised |-> made.raised, data |-> <<>>, meta |-> meta, state |-> Some(classes)]
        ELSE [raised |-> "no",
              data |-> [i \in 1..Len(made.instances) |->
                          [input |-> made.instances[i][1], target |-> made.instances[i][2]]],
              meta |-> meta, state |-> Some(classes)]

\* the paths handed to a source besides the root: a path below the root that
\* may or may not exist, and the two-character path "bb"
PathPool == {Join(ROOT, n) : n \in Names} \cup {<<98, 98>>}

\* PathsDataSource.isdir(data) for a path string
isdir_path(fsv, data) == \E d \in DOMAIN fsv : PathStr(d) = data

\* SequenceDataSource.load_data(data, dataset) for a path string: the string
\* is unpacked into inputs and targets, which are zipped
SequenceLoadData(data) ==
    IF Len(data) # 2 THEN [raised |-> "ValueError", data |-> <<>>]
    ELSE [raised |-> "no", data |-> <<[input |-> <<data[1]>>, target |-> <<data[2]>>]>>]

\* list(filter(lambda sample: has_file_allowed_extension(...), samples))
FilterSamples(samples, exts, state) ==
    IF samples.raised # "no"
    THEN [raised |-> samples.raised, data |-> <<>>, meta |-> NoMeta, state |-> state]
    ELSE IF exts = None /\ samples.data # <<>>
    THEN [raised |-> "TypeError", data |-> <<>>, meta |-> NoMeta, state |-> state]
    ELSE [raised |-> "no",
          data |-> SelectSeq(samples.data,
                      LAMBDA sample : has_file_allowed_extension(sample.input, exts[1])),
          meta |-> NoMeta, state |-> state]

\* PathsDataSource.load_data(data, dataset) for the root or for a path that
\* is no directory
PathsDataSource_load_data(fsv, data, exts, state) ==
    IF data = ROOT THEN load_data(fsv, exts, state)
    ELSE FilterSamples(SequenceLoadData(data), exts, state)

\* PathsDataSource.predict_load_data(data) for the root or for a path that
\* is no directory
PathsDataSource_predict_load_data(fsv, data, exts, state) ==
    IF data = ROOT THEN predict_load_data(fsv, exts, state)
    ELSE FilterSamples([raised |-> "no", data |-> SequencePredictLoadData(<<data>>)], exts, state)

(***************************************************************************)
(* flash/image/detection/data.py: inputs                                   *)
(***************************************************************************)
MaxAnns == 2           \* annotations (detections) in one file (collection)

ImgIds == {1, 2}

Ann(b, c, a, k) == [bbox |-> b, category_id |-> c, area |-> a, iscrowd |-> k]

\* annotations with [x, y, width, height] boxes: sound ones (with the area of
\* the box or a smaller segmentation area), one pixel wide or high ones, empty
\* and negative ones
AnnPool == {Ann(<<10, 20, 30, 15>>, 0, 450, 0),
            Ann(<<3, 5, 2, 2>>, 1, 3, 1),
            Ann(<<0, 0, 2, 3>>, 1, 6, 0),
            Ann(<<3, 5, 1, 1>>, 0, 1, 0),
            Ann(<<3, 5, 1, 2>>, 1, 2, 1),
            Ann(<<3, 5, 2, 1>>, 0, 2, 0),
            Ann(<<3, 5, 0, 2>>, 0, 0, 0),
            Ann(<<3, 5, 2, 0>>, 1, 0, 1),
            Ann(<<3, 5, -1, 2>>, 0, 0, 0)}

\* the "categories" section as listed in the file: ids in file order
CategoryPool == {<<>>, <<0>>, <<0, 1>>, <<1, 0>>, <<0, 2>>, <<2, 1>>}

\* lists of at most n elements of S
RECURSIVE SeqsUpTo(_, _)
SeqsUpTo(S, n) ==
    IF n = 0 THEN {<<>>}
    ELSE LET shorter == SeqsUpTo(S, n - 1)
         IN  shorter \cup {Append(q, x) : q \in {r \in shorter : Len(r) = n - 1}, x \in S}

NoImages == [i \in {} |-> <<>>]

\* the ways to give the images ids at most budget annotations in all
RECURSIVE AnnMaps(_, _)
AnnMaps(ids, budget) ==
    IF ids = {} THEN {NoImages}
    ELSE LET i == CHOOSE x \in ids : TRUE
         IN  UNION {{(i :> q) @@ f : f \in AnnMaps(ids \ {i}, budget - Len(q))} :
                      q \in SeqsUpTo(AnnPool, budget)}

\* coco.imgs with coco.imgToAnns: image id -> its annotations in file order
ImagePool == UNION {AnnMaps(ids, MaxAnns) : ids \in SUBSET ImgIds}

EmptyFile == [categories |-> <<>>, images |-> NoImages]

Det(l, b, c) == [label |-> l, bounding_box |-> b, iscrowd |-> c]

\* detections of a sample: label "a" or "B", a relative [x, y, width, height]
\* box in halves of the image, and the crowd attribute (None or 1)
DetPool == {Det(l, b, c) : l \in {<<97>>, <<66>>},
                           b \in {<<0, 0, 2, 2>>, <<1, 0, 1, 2>>},
                           c \in {None, Some(1)}}

\* metadata.width and metadata.height of a sample
SizePool == {<<4, 2>>, <<3, 5>>}

Sample(z, d) == [width |-> z[1], height |-> z[2], detections |-> d]

\* at most n samples, in order, with at most budget detections in all
RECURSIVE Samples(_, _)
Samples(n, budget) ==
    IF n = 0 THEN {<<>>}
    ELSE {<<>>} \cup
         UNION {{<<Sample(z, d)>> \o rest : z \in SizePool, rest \in Samples(n - 1, budget - Len(d))} :
                  d \in SeqsUpTo(DetPool, budget)}

\* the samples of a collection
SamplePool == Samples(2, MaxAnns)

\* data.classes[label_field] and data.default_classes (empty when not declared)
ClassesPool == {<<>>, <<(<<97>>), (<<66>>)>>}
DefaultClassesPool == {<<>>, <<(<<66>>), (<<97>>)>>, <<(<<66>>)>>}

EmptyCollection == [classes |-> <<>>, default_classes |-> <<>>, samples |-> <<>>]

DetIdle ==
    /\ coco = EmptyFile
    /\ stage = "train"
    /\ collection = EmptyCollection
    /\ det_out = None

(***************************************************************************)
(* flash/image/detection/data.py: COCODataSource                           *)
(***************************************************************************)
\* self.training of a source whose running stage is st
training(st) == st = "train"

\* list(sorted(coco.imgs.keys()))
RECURSIVE SortedIds(_)
SortedIds(S) ==
    IF S = {} THEN <<>>
    ELSE LET m == CHOOSE x \in S : \A y \in S : x <= y IN <<m>> \o SortedIds(S \ {m})

\* coco.loadCats(coco.getCatIds()): the categories in the order of the file
loadCats(file) == file.categories

\* if categories: dataset.num_classes = categories[-1]["id"] + 1
COCO_num_classes(categories) ==
    IF categories # <<>>
    THEN ("num_classes" :> categories[Len(categories)] + 1)
    ELSE NoMeta

\* the filter of images without a usable box, applied in every stage
COCO_skip_image_any_stage(st, annotations) ==
    \A k \in 1..Len(annotations) :
        \E o \in {annotations[k].bbox[3], annotations[k].bbox[4]} : o <= 1

\* an image filter that looks at the widths only
COCO_skip_image_width_only(st, annotations) ==
    /\ training(st)
    /\ \A k \in 1..Len(annotations) : annotations[k].bbox[3] <= 1

\* self.training and all(any(o <= 1 for o in obj["bbox"][2:]) for obj in annotations)
COCO_skip_image(st, annotations) ==
    /\ training(st)
    /\ \A k \in 1..Len(annotations) :
          \E o \in {annotations[k].bbox[3], annotations[k].bbox[4]} : o <= 1

\* a conversion that takes the width and height for the far corner
COCO_bbox_no_offset(obj) ==
    <<obj.bbox[1], obj.bbox[2], obj.bbox[3], obj.bbox[4]>>

\* bbox = [xmin, ymin, xmax, ymax]
COCO_bbox(obj) ==
    LET xmin == obj.bbox[1]
        ymin == obj.bbox[2]
        xmax == xmin + obj.bbox[3]
        ymax == ymin + obj.bbox[4]
    IN  <<xmin, ymin, xmax, ymax>>

\* keep = (bbox[3] > bbox[1]) & (bbox[2] > bbox[0])
COCO_keep(obj) ==
    LET bbox == COCO_bbox(obj) IN bbox[4] > bbox[2] /\ bbox[3] > bbox[1]

\* a target whose labels are appended for every annotation, kept or not
COCO_target_labels_unfiltered(img_id, annotations) ==
    LET kept == SelectSeq(annotations, COCO_keep)
    IN  [boxes |-> [k \in 1..Len(kept) |-> COCO_bbox(kept[k])],
         labels |-> [k \in 1..Len(annotations) |-> annotations[k].category_id],
         image_id |-> img_id,
         area |-> [k \in 1..Len(kept) |-> kept[k].area],
         iscrowd |-> [k \in 1..Len(kept) |-> kept[k].iscrowd]]

\* the four lists that the loop over the annotations of one image fills
COCO_target(img_id, annotations) ==
    LET kept == SelectSeq(annotations, COCO_keep)
    IN  [boxes |-> [k \in 1..Len(kept) |-> COCO_bbox(kept[k])],
         labels |-> [k \in 1..Len(kept) |-> kept[k].category_id],
         image_id |-> img_id,
         area |-> [k \in 1..Len(kept) |-> kept[k].area],
         iscrowd |-> [k \in 1..Len(kept) |-> kept[k].iscrowd]]

\* path["file_name"] of an image: the digit of its id
file_name(img_id) == <<48 + img_id>>

\* COCODataSource.load_data((root, ann_file), dataset)
COCO_load_data(file, st) ==
    LET categories == loadCats(file)
        img_ids == SortedIds(DOMAIN file.images)
        used == SelectSeq(img_ids, LAMBDA img_id : ~COCO_skip_image(st, file.images[img_id]))
    IN  [source |-> "coco",
         raised |-> "no",
         data |-> [k \in 1..Len(used) |->
                     [input |-> Join(ROOT, file_name(used[k])),
                      target |-> COCO_target(used[k], file.images[used[k]])]],
         meta |-> COCO_num_classes(categories)]

(***************************************************************************)
(* ObjectDetectionFiftyOneDataSource and flash/core/integrations/fiftyone   *)
(***************************************************************************)
\* data.distinct(label_path): the labels in use, sorted
distinct(data) ==
    SortStrs(SetToSeq({data.samples[k].detections[i].label :
        <<k, i>> \in UNION {{<<k2, i2>> : i2 \in 1..Len(data.samples[k2].detections)} :
                              k2 \in 1..Len(data.samples)}}))

\* get_classes(data, label_field)
get_classes(data) ==
    IF data.classes # <<>> THEN data.classes
    ELSE IF data.default_classes # <<>> THEN data.default_classes
    ELSE distinct(data)

\* a reformatting whose area is that of the relative box
reformat_bbox_relative_area(xmin, ymin, box_w, box_h, img_w, img_h) ==
    [box |-> <<xmin * img_w, ymin * img_h,
               xmin * img_w + box_w * img_w, ymin * img_h + box_h * img_h>>,
     area |-> box_w * box_h]

\* ObjectDetectionFiftyOneDataSource._reformat_bbox
reformat_bbox(xmin, ymin, box_w, box_h, img_w, img_h) ==
    LET xmin2 == xmin * img_w
        ymin2 == ymin * img_h
        box_w2 == box_w * img_w
        box_h2 == box_h * img_h
        xmax == xmin2 + box_w2
        ymax == ymin2 + box_h2
    IN  [box |-> <<xmin2, ymin2, xmax, ymax>>, area |-> box_w2 * box_h2]

\* {cls_name: i for i, cls_name in enumerate(classes)}
enumerate_classes(classes) ==
    [c \in Range(classes) |->
        (CHOOSE i \in 1..Len(classes) :
            classes[i] = c /\ \A j \in 1..Len(classes) : classes[j] = c => j <= i) - 1]

\* the target of one sample of the collection
FiftyOne_target(img_id, sample, class_to_idx) ==
    LET dets == sample.detections
        out(k) == reformat_bbox(dets[k].bounding_box[1], dets[k].bounding_box[2],
                                dets[k].bounding_box[3], dets[k].bounding_box[4],
                                sample.width, sample.height)
    IN  [boxes |-> [k \in 1..Len(dets) |-> out(k).box],
         labels |-> [k \in 1..Len(dets) |-> class_to_idx[dets[k].label]],
         image_id |-> img_id,
         area |-> [k \in 1..Len(dets) |-> out(k).area],
         iscrowd |-> [k \in 1..Len(dets) |->
                        IF dets[k].iscrowd = None THEN 0 ELSE dets[k].iscrowd[1]]]

\* the filepath of the k-th sample: the digit of k below ROOT
filepath(k) == Join(ROOT, <<48 + k>>)

\* ObjectDetectionFiftyOneDataSource.load_data(data, dataset)
FiftyOne_load_data(data) ==
    LET classes == get_classes(data)
        class_to_idx == enumerate_classes(classes)
        meta == ("num_classes" :> Len(classes))
        known == \A k \in 1..Len(data.samples) :
                     \A i \in 1..Len(data.samples[k].detections) :
                         data.samples[k].detections[i].label \in DOMAIN class_to_idx
    IN  IF ~known
        THEN [source |-> "fiftyone", raised |-> "KeyError", data |-> <<>>, meta |-> meta,
              classes |-> classes]
        ELSE [source |-> "fiftyone",
              raised |-> "no",
              classes |-> classes,
              data |-> [k \in 1..Len(data.samples) |->
                          [input |-> filepath(k),
                           target |-> FiftyOne_target(k, data.samples[k], class_to_idx)]],
              meta |-> meta]

(***************************************************************************)
(* load_sample: from a descriptor of load_data to a sample                 *)
(***************************************************************************)
MaxSamples == 2        \* descriptors of one dataset

\* the image files descriptors point to
FilePool == {"1.jpg", "2.jpg", "3.png"}

\* sample[DefaultDataKeys.INPUT]: a file path, or the image loaded from it
Path(p) == [image |-> FALSE, path |-> p]
Image(p) == [image |-> TRUE, path |-> p]

\* img.size of the image stored in a file: (width, height)
ImageSize(p) ==
    CASE p = "1.jpg" -> <<4, 3>>
      [] p = "2.jpg" -> <<2, 5>>
      [] OTHER -> <<1, 1>>

\* a descriptor as load_data emits it: no metadata key yet
Descriptor(p) == [input |-> Path(p), metadata |-> None]

DescriptorPool == SeqsUpTo({Descriptor(p) : p \in FilePool}, MaxSamples)

\* the classes whose load_sample is modelled
SampleSourcePool == {"DataSource", "DatasetDataSource", "COCODataSource",
                     "ObjectDetectionFiftyOneDataSource"}

\* what a load_sample call leaves behind: the descriptor object afterwards,
\* and the sample it returned (None when it raised)
Loaded(raised, sample, ret) == [raised |-> raised, sample |-> sample, ret |-> ret]

\* torchvision's default_loader(filepath): open(filepath, "rb") needs a path
default_loader(input) == IF input.image THEN None ELSE Some(Image(input.path))

\* the body COCODataSource.load_sample and
\* ObjectDetectionFiftyOneDataSource.load_sample share: the descriptor's input
\* and metadata keys are assigned, and the descriptor itself is returned
load_image(sample) ==
    LET given == sample.input
        img == default_loader(given)
    IN  IF img = None THEN Loaded("TypeError", sample, None)
        ELSE LET w == ImageSize(img[1].path)[1]
                 h == ImageSize(img[1].path)[2]
                 filled == [input |-> img[1],
                            metadata |-> Some([filepath |-> given, size |-> <<h, w>>])]
             IN  Loaded("no", filled, Some(filled))

\* COCODataSource.load_sample(sample)
COCO_load_sample(sample) == load_image(sample)

\* ObjectDetectionFiftyOneDataSource.load_sample(sample, dataset)
FiftyOne_load_sample(sample) == load_image(sample)

\* DataSource.load_sample(sample, dataset)
DataSource_load_sample(sample) == Loaded("no", sample, Some(sample))

\* DatasetDataSource.load_sample(sample, dataset): a new mapping around it
DatasetDataSource_load_sample(sample) ==
    Loaded("no", sample, Some([input |-> sample, metadata |-> None]))

\* self.load_sample(sample) of an instance of the class src
load_sample(src, sample) ==
    CASE src = "DataSource" -> DataSource_load_sample(sample)
      [] src = "DatasetDataSource" -> DatasetDataSource_load_sample(sample)
      [] src = "COCODataSource" -> COCO_load_sample(sample)
      [] src = "ObjectDetectionFiftyOneDataSource" -> FiftyOne_load_sample(sample)

SamplesIdle ==
    /\ sample_src = "DataSource"
    /\ descriptors = <<>>
    /\ sample_log = <<>>

(***************************************************************************)
(* DataSource.generate_dataset: the stage-aware dispatch of the load hook  *)
(***************************************************************************)
MaxGen == 2            \* generate_dataset calls on one instance

\* the stage hooks a class may define besides load_data
StageHooks == {"train_load_data", "val_load_data", "test_load_data", "predict_load_data"}

\* a class: the stage hooks it defines, and whether its load_data hands the
\* data on to self.predict_load_data (as SequenceDataSource.load_data does)
ClassPool ==
    {c \in [defined : SUBSET StageHooks, delegating : BOOLEAN] :
        c.delegating => "predict_load_data" \in c.defined}

\* the data argument: None, an object that is no sequence, a sequence, a
\* sequence whose first element is None, an empty sequence
DataPool == {"None", "object", "seq", "seq_first_none", "empty_seq"}

\* isinstance(data, Sequence)
IsSequence(data) == data \in {"seq", "seq_first_none", "empty_seq"}

\* the name of the hook of a stage
StageHook(st) ==
    CASE st = "train" -> "train_load_data"
      [] st = "val" -> "val_load_data"
      [] st = "test" -> "test_load_data"
      [] st = "predict" -> "predict_load_data"

\* DataPipeline._resolve_function_hierarchy("load_data", self, running_stage, DataSource)
resolve_function_hierarchy(cls, st) ==
    IF StageHook(st) \in cls.defined THEN StageHook(st) ELSE "load_data"

\* the hooks that run inside the hook generate_dataset called
Delegated(cls, hook, delegates) ==
    IF hook = "load_data" /\ cls.delegating /\ delegates
    THEN <<[hook |-> "predict_load_data", by |-> "load_data"]>>
    ELSE <<>>

\* a dispatch that resolves the hook for the training stage whatever the stage
generate_dataset_train_hook(cls, data, running_stage, delegates) ==
    IF data = "empty_seq" THEN [ret |-> "IndexError", calls |-> <<>>]
    ELSE IF data = "None" \/ data = "seq_first_none" THEN [ret |-> "None", calls |-> <<>>]
    ELSE LET resolved_func_name == resolve_function_hierarchy(cls, "train")
         IN  [ret |-> "dataset",
              calls |-> <<[hook |-> resolved_func_name, by |-> "generate_dataset"]>>
                        \o Delegated(cls, resolved_func_name, delegates)]

\* DataSource.generate_dataset(data, running_stage): what it returns and the
\* hooks that ran
generate_dataset(cls, data, running_stage, delegates) ==
    IF IsSequence(data) /\ data = "empty_seq"
    THEN [ret |-> "IndexError", calls |-> <<>>]
    ELSE LET is_none == IF IsSequence(data) THEN data = "seq_first_none" ELSE data = "None"
         IN  IF is_none THEN [ret |-> "None", calls |-> <<>>]
             ELSE LET resolved_func_name == resolve_function_hierarchy(cls, running_stage)
                  IN  [ret |-> "dataset",
                       calls |-> <<[hook |-> resolved_func_name, by |-> "generate_dataset"]>>
                                 \o Delegated(cls, resolved_func_name, delegates)]

HooksIdle ==
    /\ source_cls = [defined |-> {}, delegating |-> FALSE]
    /\ history = <<>>

(***************************************************************************)
(* DataSource.generate_dataset on an instance: the placeholder, the        *)
(* running-stage context and the wrapping of the hook's result             *)
(***************************************************************************)
\* values a hook stores on the placeholder: an integer, or a mapping
EmptyDict == [k \in {} |-> 0]
IntValue(n) == [isdict |-> FALSE, int |-> n, dict |-> EmptyDict]
DictValue(d) == [isdict |-> TRUE, int |-> 0, dict |-> d]

\* the parameters the load hooks of a class declare (after self), its
\* load_sample, and whether its load_data loads a first sample when training
Class(name, defined, delegating, params, sample_fn, eager) ==
    [name |-> name, defined |-> defined, delegating |-> delegating, params |-> params,
     load_sample |-> sample_fn, eager |-> eager]

DataSource ==
    Class("DataSource", {}, FALSE, ("load_data" :> <<"data", "dataset">>), "identity", FALSE)

DatasetDataSource ==
    Class("DatasetDataSource", {}, FALSE, ("load_data" :> <<"dataset", "auto_dataset">>), "wrap", TRUE)

SequenceDataSource ==
    Class("SequenceDataSource", {"predict_load_data"}, TRUE,
          ("load_data" :> <<"data", "dataset">>) @@ ("predict_load_data" :> <<"data">>),
          "identity", FALSE)

PathsDataSource ==
    Class("PathsDataSource", {"predict_load_data"}, TRUE,
          ("load_data" :> <<"data", "dataset">>) @@ ("predict_load_data" :> <<"data", "dataset">>),
          "identity", FALSE)

COCODataSource ==
    Class("COCODataSource", {}, FALSE, ("load_data" :> <<"data", "dataset">>),
          "load_image", FALSE)

\* flash_examples: load_data(folders), predict_load_data(predict_folder)
MultipleFoldersImageInput ==
    Class("MultipleFoldersImageInput", {"predict_load_data"}, FALSE,
          ("load_data" :> <<"folders">>) @@ ("predict_load_data" :> <<"predict_folder">>),
          "load_image", FALSE)

\* a user's class with a hook per fitting stage: one whose only parameter is
\* called dataset, one with a second parameter of another name, one with both
StageSource ==
    Class("StageSource", {"train_load_data", "val_load_data", "test_load_data"}, FALSE,
          ("load_data" :> <<"data">>) @@ ("train_load_data" :> <<"dataset">>)
              @@ ("val_load_data" :> <<"data", "other">>)
              @@ ("test_load_data" :> <<"data", "dataset">>),
          "identity", FALSE)

InstanceClassPool ==
    {DataSource, DatasetDataSource, SequenceDataSource, PathsDataSource, COCODataSource,
     MultipleFoldersImageInput, StageSource}

\* what the body of a load hook does: the attributes it sets on its second
\* argument, in order, and what it returns: something with a length, something
\* whose len() raises TypeError or NotImplementedError, or it raises
Body(writes, result) == [writes |-> writes, result |-> result]

BodyPool ==
    {Body(<<>>, "sized"),
     Body(<<(<<"num_classes", IntValue(1)>>), (<<"num_classes", IntValue(2)>>)>>, "sized"),
     Body(<<(<<"num_classes", IntValue(1)>>)>>, "iterable"),
     Body(<<>>, "not_implemented"),
     Body(<<(<<"num_classes", IntValue(1)>>)>>, "raise"),
     Body(<<(<<"metadata", DictValue(("num_classes" :> IntValue(3)))>>)>>, "sized"),
     Body(<<(<<"metadata", IntValue(5)>>), (<<"num_classes", IntValue(1)>>)>>, "sized")}

\* the data of single generate_dataset calls: None, an object that is no
\* sequence, a sequence (a path string, or a pair of inputs and targets)
InstanceDataPool == {"None", "object", "seq"}

\* the *_data arguments of to_datasets: None, a sequence, a sequence whose
\* first element is None, an empty sequence
TupleDataPool == {"None", "seq", "seq_first_none", "empty_seq"}

\* the running stage of an instance outside any call
InstanceStagePool == {"None", "test"}

\* MockDataset(): metadata is the capture mapping, attrs the object's other
\* attributes, raised whether a __setattr__ raised
MockDataset == [metadata |-> DictValue(EmptyDict), attrs |-> EmptyDict, raised |-> FALSE]

\* MockDataset.__setattr__(key, value)
MockDataset_setattr(mock, key, value) ==
    IF mock.raised THEN mock
    ELSE IF key # "metadata"
    THEN IF mock.metadata.isdict
         THEN [mock EXCEPT !.metadata = DictValue((key :> value) @@ mock.metadata.dict),
                           !.attrs = (key :> value) @@ mock.attrs]
         ELSE [mock EXCEPT !.raised = TRUE]
    ELSE [mock EXCEPT !.metadata = value]

\* the placeholder after the hook's attribute writes
RECURSIVE ApplyWrites(_, _)
ApplyWrites(mock, writes) ==
    IF writes = <<>> THEN mock
    ELSE ApplyWrites(MockDataset_setattr(mock, Head(writes)[1], Head(writes)[2]), Tail(writes))

\* has_len(data), where only the hook's result kinds reach it
has_len_always(data) == TRUE

has_len(data) == data = "sized"

\* len(parameters) > 1 and "dataset" in parameters
passes_placeholder_by_name_only(parameters) == "dataset" \in Range(parameters)

passes_placeholder(parameters) == Len(parameters) > 1 /\ "dataset" \in Range(parameters)

\* CurrentRunningStageFuncContext.__enter__ and __exit__ on the instance
ContextEnter(self, running_stage) == [self EXCEPT !.dict["_running_stage"] = running_stage]

ContextExit(self, previous) == [self EXCEPT !.dict["_running_stage"] = previous]

\* DatasetDataSource.load_data: "if self.training", store a first sample
stores_sample_in_any_stage(self, resolved_func_name) ==
    self.cls.eager /\ resolved_func_name = "load_data"

stores_sample(self, resolved_func_name) ==
    self.cls.eager /\ resolved_func_name = "load_data" /\ training(self.dict["_running_stage"])

\* what the hook sets on its second argument: DatasetDataSource.load_data
\* sets sample, the body of any other hook is free
HookWrites(self, resolved_func_name, body) ==
    IF self.cls.eager
    THEN IF stores_sample(self, resolved_func_name)
         THEN <<(<<"sample", DictValue(("input" :> IntValue(0)))>>)>>
         ELSE <<>>
    ELSE body.writes

\* the hooks that ran, with their arguments and the running stage of the
\* instance while they ran; calls[1] is the hook generate_dataset called
HookEvents(self, calls, with_mock) ==
    [k \in 1..Len(calls) |->
        [fn |-> calls[k].hook, by |-> calls[k].by,
         args |-> IF k = 1 /\ with_mock THEN <<"data", "mock_dataset">> ELSE <<"data">>,
         stage |-> self.dict["_running_stage"]]]

\* self.load_sample(dataset[0], self) inside DatasetDataSource.load_data
SampleEvents(self, resolved_func_name) ==
    IF stores_sample(self, resolved_func_name)
    THEN <<[fn |-> "load_sample", by |-> resolved_func_name, args |-> <<"dataset[0]", "self">>,
            stage |-> self.dict["_running_stage"]]>>
    ELSE <<>>

\* what a generate_dataset call leaves behind
Outcome(ret, self, events, dataset, mock, writes) ==
    [ret |-> ret, self |-> self, events |-> events, dataset |-> dataset, mock |-> mock,
     writes |-> writes]

\* AutoDataset(data, self, running_stage) or IterableAutoDataset(...), then
\* dataset.__dict__.update(mock_dataset.metadata)
Wrap(data, running_stage, mock_dataset) ==
    [type |-> IF has_len(data) THEN "AutoDataset" ELSE "IterableAutoDataset",
     data |-> data, running_stage |-> running_stage, dict |-> mock_dataset.metadata.dict]

\* the hook calls[1] called with or without the placeholder on the instance
\* inside the context, its result wrapped; after is the instance the context
\* leaves behind
LoadIn(inside, after, running_stage, calls, body) ==
    LET resolved_func_name == calls[1].hook
        parameters == inside.cls.params[resolved_func_name]
        with_mock == passes_placeholder(parameters)
        writes == IF with_mock THEN HookWrites(inside, resolved_func_name, body) ELSE <<>>
        mock_dataset == ApplyWrites(MockDataset, writes)
        events == HookEvents(inside, calls, with_mock) \o SampleEvents(inside, resolved_func_name)
        passed == IF with_mock THEN Some(mock_dataset) ELSE None
    IN  IF body.result = "raise"
        THEN Outcome("raise", after, events, None, passed, writes)
        ELSE IF mock_dataset.raised \/ ~mock_dataset.metadata.isdict
        THEN Outcome("TypeError", after, events, None, passed, writes)
        ELSE Outcome("dataset", after, events, Some(Wrap(body.result, running_stage, mock_dataset)),
                     passed, writes)

\* the body of "if not is_none" with the stage set and never set back
Load_leaving_stage(self, running_stage, calls, body) ==
    LoadIn(ContextEnter(self, running_stage), ContextEnter(self, running_stage),
           running_stage, calls, body)

\* the body of "if not is_none": the hook runs inside
\* "with CurrentRunningStageFuncContext(running_stage, "load_data", self)"
Load(self, running_stage, calls, body) ==
    LoadIn(ContextEnter(self, running_stage),
           ContextExit(ContextEnter(self, running_stage), self.dict["_running_stage"]),
           running_stage, calls, body)

\* a generate_dataset that keeps the first hook it resolved on the instance
DataSource_generate_dataset_cached(self, data, running_stage, delegates, body) ==
    LET d == generate_dataset(self.cls, data, running_stage, delegates)
        calls == IF "_load_data" \in DOMAIN self.dict
                 THEN <<[hook |-> self.dict["_load_data"], by |-> "generate_dataset"]>>
                 ELSE d.calls
        r == Load(self, running_stage, calls, body)
    IN  IF d.ret # "dataset" THEN Outcome(d.ret, self, <<>>, None, None, <<>>)
        ELSE [r EXCEPT !.self.dict = ("_load_data" :> calls[1].hook) @@ @]

\* DataSource.generate_dataset(data, running_stage) on the instance self,
\* whose resolved hook has the given body
DataSource_generate_dataset(self, data, running_stage, delegates, body) ==
    LET d == generate_dataset(self.cls, data, running_stage, delegates)
    IN  IF d.ret # "dataset" THEN Outcome(d.ret, self, <<>>, None, None, <<>>)
        ELSE Load(self, running_stage, d.calls, body)

\* the stages of to_datasets, in the order of its generate_dataset calls
StageOrder == <<"train", "val", "test", "predict">>

Raised(r) == r.ret \in {"IndexError", "raise", "TypeError"}

\* the generate_dataset calls of to_datasets from the k-th on, up to the
\* first that raises
RECURSIVE RunStages(_, _, _, _, _)
RunStages(self, datas, delegates, body, k) ==
    IF k > Len(StageOrder) THEN <<>>
    ELSE LET r == DataSource_generate_dataset(self, datas[k], StageOrder[k], delegates, body)
         IN  IF Raised(r) THEN <<r>>
             ELSE <<r>> \o RunStages(r.self, datas, delegates, body, k + 1)

\* what to_datasets leaves behind
TupleOf(self, runs) ==
    [runs |-> runs,
     ret |-> IF Raised(runs[Len(runs)]) THEN runs[Len(runs)].ret ELSE "tuple",
     datasets |-> [k \in 1..Len(runs) |-> runs[k].dataset],
     self |-> runs[Len(runs)].self]

\* a to_datasets that hands the test data to the validation stage and back
to_datasets_swapped(self, train_data, val_data, test_data, predict_data, delegates, body) ==
    TupleOf(self, RunStages(self, <<train_data, test_data, val_data, predict_data>>, delegates, body, 1))

\* DataSource.to_datasets(train_data, val_data, test_data, predict_data)
to_datasets(self, train_data, val_data, test_data, predict_data, delegates, body) ==
    TupleOf(self, RunStages(self, <<train_data, val_data, test_data, predict_data>>, delegates, body, 1))

InstanceIdle ==
    /\ self_obj = [cls |-> DataSource, dict |-> ("_running_stage" :> "None")]
    /\ hook_body = Body(<<>>, "sized")
    /\ gen_log = <<>>
    /\ last_call = None
    /\ tuple_out = None

(***************************************************************************)
(* flash/image/style_transfer/data.py                                      *)
(***************************************************************************)
\* a transform argument: None, an empty mapping, or a mapping with hooks
TransformPool == {"None", "empty", "hooks"}

\* bool(transform)
Truthy(transform) == transform = "hooks"

\* image_size: an int, or a (height, width) pair
IntSize(n) == [int |-> TRUE, n |-> n, pair |-> <<>>]
PairSize(h, w) == [int |-> FALSE, n |-> 0, pair |-> <<h, w>>]
ImageSizePool == {IntSize(256), PairSize(128, 64)}

\* if isinstance(image_size, int): image_size = (image_size, image_size)
AsPair(image_size) == IF image_size.int THEN <<image_size.n, image_size.n>> ELSE image_size.pair

\* the keyword arguments from_folders may receive in **kwargs
KwargPool == {"val_folder", "val_transform", "test_folder", "test_transform", "batch_size"}

\* what a call leaves behind: the phase raise_not_supported was called with
\* (or "no"), what was built before, and the image size of the preprocess
Called(raised, built, image_size) ==
    [raised |-> raised, built |-> built, image_size |-> image_size]

\* raise_not_supported(phase): the usage error of an unsupported phase
raise_not_supported(phase) == Called(phase, {}, None)

\* StyleTransferPreprocess.__init__: an int image_size becomes a pair
StyleTransferPreprocess_init(train_transform, val_transform, test_transform, predict_transform, image_size) ==
    IF Truthy(val_transform) THEN raise_not_supported("validation")
    ELSE IF Truthy(test_transform) THEN raise_not_supported("test")
    ELSE Called("no", {"preprocess"}, AsPair(image_size))

\* a from_folders that looks for the validation keywords only
from_folders_val_only(train_transform, predict_transform, preprocess, kwargs) ==
    IF kwargs \cap {"val_folder", "val_transform"} # {} THEN raise_not_supported("validation")
    ELSE Called("no", {"datasets"}, None)

\* StyleTransferData.from_folders: preprocess_cls is called with
\* train_transform and predict_transform as its first two positional
\* arguments and the default image_size
from_folders(train_transform, predict_transform, preprocess, kwargs) ==
    IF kwargs \cap {"val_folder", "val_transform"} # {} THEN raise_not_supported("validation")
    ELSE IF kwargs \cap {"test_folder", "test_transform"} # {} THEN raise_not_supported("test")
    ELSE IF preprocess THEN Called("no", {"datasets"}, None)
    ELSE LET made == StyleTransferPreprocess_init(train_transform, predict_transform, "None",
                                                  "None", IntSize(256))
         IN  IF made.raised # "no" THEN made
             ELSE Called("no", made.built \cup {"datasets"}, made.image_size)

StyleIdle == style = None

(***************************************************************************)
(* The path based source as a state machine                                *)
(***************************************************************************)
\* PathsDataSource.__init__(extensions, labels) on an empty root directory
InitPaths ==
    /\ fs = (<<>> :> <<>>)
    /\ extensions \in ExtensionPool
    /\ labels \in LabelsPool
    /\ labels_state = labels
    /\ loads = <<>>
    /\ direct = None
    /\ DetIdle
    /\ HooksIdle
    /\ InstanceIdle
    /\ SamplesIdle
    /\ StyleIdle

Building == loads = <<>> /\ direct = None

\* the environment creates a file in an existing directory
CreateFile ==
    \E d \in DOMAIN fs, n \in Names :
        /\ Building
        /\ NodeCount(fs) < MaxNodes
        /\ n \notin Range(EntryNames(fs[d]))
        /\ fs' = [fs EXCEPT ![d] = Append(@, File(n))]
        /\ UNCHANGED <<extensions, labels, labels_state, loads, direct, detVars, hookVars,
                       instVars, sampleVars, styleVars>>

\* the environment creates a class directory or a directory nested in one
CreateDir ==
    \E d \in DOMAIN fs, n \in Names :
        /\ Building
        /\ NodeCount(fs) < MaxNodes
        /\ Len(d) <= 1
        /\ n \notin Range(EntryNames(fs[d]))
        /\ fs' = [fs EXCEPT ![d] = Append(@, Dir(n))] @@ (Append(d, n) :> <<>>)
        /\ UNCHANGED <<extensions, labels, labels_state, loads, direct, detVars, hookVars,
                       instVars, sampleVars, styleVars>>

\* the filesystem enumerates a directory in another order from now on
Reorder ==
    \E d \in DOMAIN fs :
        \E i \in 1..(Len(fs[d]) - 1) :
            /\ direct = None
            /\ fs' = [fs EXCEPT ![d] = [@ EXCEPT ![i] = fs[d][i + 1], ![i + 1] = fs[d][i]]]
            /\ UNCHANGED <<extensions, labels, labels_state, loads, direct, detVars, hookVars,
                       instVars, sampleVars, styleVars>>

\* repeated loads are loads through the same hook
CanLoad(hook) ==
    /\ direct = None
    /\ Len(loads) < MaxLoads
    /\ loads # <<>> => loads[1].hook = hook

\* generate_dataset runs PathsDataSource.load_data on the root directory
LoadData ==
    /\ CanLoad("load_data")
    /\ LET r == load_data(fs, extensions, labels_state)
       IN  /\ loads' = Append(loads, [hook |-> "load_data", result |-> r])
           /\ labels_state' = r.state
    /\ UNCHANGED <<fs, extensions, labels, direct, detVars, hookVars,
                       instVars, sampleVars, styleVars>>

\* generate_dataset runs PathsDataSource.predict_load_data on the root directory
PredictLoadData ==
    /\ CanLoad("predict_load_data")
    /\ LET r == predict_load_data(fs, extensions, labels_state)
       IN  /\ loads' = Append(loads, [hook |-> "predict_load_data", result |-> r])
           /\ labels_state' = r.state
    /\ UNCHANGED <<fs, extensions, labels, direct, detVars, hookVars,
                       instVars, sampleVars, styleVars>>

\* a direct call of PathsDataSource.find_classes(dir)
FindClasses ==
    /\ Building
    /\ direct' = Some([fn |-> "find_classes", result |-> find_classes(fs)])
    /\ UNCHANGED <<fs, extensions, labels, labels_state, loads, detVars, hookVars,
                       instVars, sampleVars, styleVars>>

\* a direct call of make_dataset(dir, class_to_idx, extensions, is_valid_file)
MakeDataset ==
    \E exts \in ExtensionPool, valid \in ValidPool :
        /\ Building
        /\ direct' = Some([fn |-> "make_dataset",
                           extensions |-> exts, is_valid_file |-> valid,
                           result |-> make_dataset(fs, find_classes(fs).class_to_idx, exts, valid)])
        /\ UNCHANGED <<fs, extensions, labels, labels_state, loads, detVars, hookVars,
                       instVars, sampleVars, styleVars>>

\* generate_dataset(data, running_stage) of a PathsDataSource on a path that
\* is not a directory
LoadPath ==
    \E data \in PathPool, running_stage \in Stages :
        /\ Building
        /\ ~isdir_path(fs, data)
        /\ LET hook == resolve_function_hierarchy(PathsDataSource, running_stage)
               r == IF hook = "predict_load_data"
                    THEN PathsDataSource_predict_load_data(fs, data, extensions, labels_state)
                    ELSE PathsDataSource_load_data(fs, data, extensions, labels_state)
           IN  direct' = Some([fn |-> "generate_dataset", data |-> data,
                               running_stage |-> running_stage, hook |-> hook, result |-> r])
        /\ UNCHANGED <<fs, extensions, labels, labels_state, loads, detVars, hookVars,
                       instVars, sampleVars, styleVars>>

NextPaths ==
    \/ CreateFile
    \/ CreateDir
    \/ Reorder
    \/ LoadData
    \/ PredictLoadData
    \/ FindClasses
    \/ MakeDataset
    \/ LoadPath

SpecPaths == InitPaths /\ [][NextPaths]_vars

(***************************************************************************)
(* The bounding-box sources as a state machine                             *)
(***************************************************************************)
PathsIdle ==
    /\ fs = (<<>> :> <<>>)
    /\ extensions = None
    /\ labels = None
    /\ labels_state = None
    /\ loads = <<>>
    /\ direct = None

\* a COCODataSource with an annotation file, or the FiftyOne source with a
\* sample collection, before load_data
InitDetection ==
    /\ PathsIdle
    /\ HooksIdle
    /\ InstanceIdle
    /\ SamplesIdle
    /\ StyleIdle
    /\ det_out = None
    /\ \/ /\ coco \in [categories : CategoryPool, images : ImagePool]
          /\ stage \in Stages
          /\ collection = EmptyCollection
       \/ /\ coco = EmptyFile
          /\ stage = "train"
          /\ collection \in [classes : ClassesPool, default_classes : DefaultClassesPool,
                               samples : SamplePool]

\* generate_dataset runs COCODataSource.load_data in the running stage
COCOLoadData ==
    /\ det_out = None
    /\ collection = EmptyCollection
    /\ det_out' = Some(COCO_load_data(coco, stage))
    /\ UNCHANGED <<coco, stage, collection, pathVars, hookVars,
                   instVars, sampleVars, styleVars>>

\* generate_dataset runs ObjectDetectionFiftyOneDataSource.load_data
FiftyOneLoadData ==
    /\ det_out = None
    /\ coco = EmptyFile
    /\ det_out' = Some(FiftyOne_load_data(collection))
    /\ UNCHANGED <<coco, stage, collection, pathVars, hookVars,
                   instVars, sampleVars, styleVars>>

NextDetection ==
    \/ COCOLoadData
    \/ FiftyOneLoadData

SpecDetection == InitDetection /\ [][NextDetection]_vars

(***************************************************************************)
(* generate_dataset as a state machine                                     *)
(***************************************************************************)
\* an instance of some DataSource class, before any call
InitHooks ==
    /\ PathsIdle
    /\ DetIdle
    /\ InstanceIdle
    /\ SamplesIdle
    /\ StyleIdle
    /\ source_cls \in ClassPool
    /\ history = <<>>

\* self.generate_dataset(data, running_stage)
GenerateDataset ==
    \E data \in DataPool, running_stage \in Stages, delegates \in BOOLEAN :
        /\ Len(history) < MaxGen
        /\ delegates => source_cls.delegating
        /\ LET r == generate_dataset(source_cls, data, running_stage, delegates)
           IN  history' = Append(history, [data |-> data, running_stage |-> running_stage,
                                           ret |-> r.ret, calls |-> r.calls])
        /\ UNCHANGED <<source_cls, pathVars, detVars, instVars, sampleVars, styleVars>>

NextHooks == GenerateDataset

SpecHooks == InitHooks /\ [][NextHooks]_vars

(***************************************************************************)
(* One DataSource instance under generate_dataset and to_datasets          *)
(***************************************************************************)
\* an instance of one of the classes, before any call; its hooks have one body
InitInstance ==
    /\ PathsIdle
    /\ DetIdle
    /\ HooksIdle
    /\ SamplesIdle
    /\ StyleIdle
    /\ self_obj \in [cls : InstanceClassPool,
                     dict : {("_running_stage" :> s) : s \in InstanceStagePool}]
    /\ hook_body \in BodyPool
    /\ gen_log = <<>>
    /\ last_call = None
    /\ tuple_out = None

\* self.generate_dataset(data, running_stage)
GenerateDatasetOnInstance ==
    \E data \in InstanceDataPool, running_stage \in Stages, delegates \in BOOLEAN :
        /\ tuple_out = None
        /\ Len(gen_log) < MaxGen
        /\ delegates => self_obj.cls.delegating /\ data = "seq"
        /\ LET r == DataSource_generate_dataset(self_obj, data, running_stage, delegates, hook_body)
           IN  /\ self_obj' = r.self
               /\ gen_log' = Append(gen_log,
                                    [running_stage |-> running_stage,
                                     hook |-> IF r.events = <<>> THEN "None" ELSE r.events[1].fn])
               /\ last_call' = Some([data |-> data, running_stage |-> running_stage,
                                     before |-> self_obj, out |-> r])
        /\ UNCHANGED <<hook_body, tuple_out, pathVars, detVars, hookVars, sampleVars, styleVars>>

\* self.to_datasets(train_data, val_data, test_data, predict_data)
ToDatasets ==
    \E datas \in [1..Len(StageOrder) -> TupleDataPool], delegates \in BOOLEAN :
        /\ tuple_out = None
        /\ gen_log = <<>>
        /\ delegates => self_obj.cls.delegating
        /\ LET r == to_datasets(self_obj, datas[1], datas[2], datas[3], datas[4], delegates, hook_body)
           IN  /\ self_obj' = r.self
               /\ tuple_out' = Some([datas |-> datas, before |-> self_obj, out |-> r])
        /\ UNCHANGED <<hook_body, gen_log, last_call, pathVars, detVars, hookVars, sampleVars, styleVars>>

NextInstance ==
    \/ GenerateDatasetOnInstance
    \/ ToDatasets

SpecInstance == InitInstance /\ [][NextInstance]_vars

(***************************************************************************)
(* The descriptors of one dataset under load_sample                        *)
(***************************************************************************)
\* the descriptors load_data returned, before any item is accessed
InitSamples ==
    /\ PathsIdle
    /\ DetIdle
    /\ HooksIdle
    /\ InstanceIdle
    /\ StyleIdle
    /\ sample_src \in SampleSourcePool
    /\ descriptors \in DescriptorPool
    /\ sample_log = <<>>

\* an access of item index: self.load_sample(self.data[index])
LoadSample ==
    \E index \in 1..Len(descriptors) :
        /\ Len(sample_log) < MaxLoads
        /\ LET r == load_sample(sample_src, descriptors[index])
           IN  /\ descriptors' = [descriptors EXCEPT ![index] = r.sample]
               /\ sample_log' = Append(sample_log,
                                       [index |-> index, given |-> descriptors[index],
                                        left |-> r.sample, raised |-> r.raised,
                                        ret |-> r.ret])
        /\ UNCHANGED <<sample_src, pathVars, detVars, hookVars, instVars, styleVars>>

NextSamples == LoadSample

SpecSamples == InitSamples /\ [][NextSamples]_vars

(***************************************************************************)
(* The style transfer entry points as a state machine                      *)
(***************************************************************************)
InitStyle ==
    /\ PathsIdle
    /\ DetIdle
    /\ HooksIdle
    /\ InstanceIdle
    /\ SamplesIdle
    /\ style = None

\* StyleTransferPreprocess(train_transform, val_transform, test_transform,
\* predict_transform, image_size)
ConstructPreprocess ==
    \E tt \in TransformPool, vt \in TransformPool, st \in TransformPool, pt \in TransformPool,
       image_size \in ImageSizePool :
        /\ style = None
        /\ style' = Some([fn |-> "__init__", train_transform |-> tt, val_transform |-> vt,
                          test_transform |-> st, predict_transform |-> pt,
                          preprocess |-> FALSE, kwargs |-> {},
                          out |-> StyleTransferPreprocess_init(tt, vt, st, pt, image_size)])
        /\ UNCHANGED <<pathVars, detVars, hookVars, instVars, sampleVars>>

\* StyleTransferData.from_folders(train_folder, predict_folder,
\* train_transform, predict_transform, preprocess, **kwargs)
FromFolders ==
    \E tt \in TransformPool, pt \in TransformPool, preprocess \in BOOLEAN,
       kwargs \in SUBSET KwargPool :
        /\ style = None
        /\ style' = Some([fn |-> "from_folders", train_transform |-> tt, val_transform |-> "None",
                          test_transform |-> "None", predict_transform |-> pt,
                          preprocess |-> preprocess, kwargs |-> kwargs,
                          out |-> from_folders(tt, pt, preprocess, kwargs)])
        /\ UNCHANGED <<pathVars, detVars, hookVars, instVars, sampleVars>>

NextStyle ==
    \/ ConstructPreprocess
    \/ FromFolders

SpecStyle == InitStyle /\ [][NextStyle]_vars

(***************************************************************************)
(* Properties of the path based source                                     *)
(***************************************************************************)
RootDirs == {e.name : e \in {x \in Range(fs[<<>>]) : x.isdir}}
RootFiles == {e.name : e \in {x \in Range(fs[<<>>]) : ~x.isdir}}
StrictlySorted(s) == \A i, j \in 1..Len(s) : i < j => StrLess(s[i], s[j])
IsCall(fn) == direct # None /\ direct[1].fn = fn
\* a name matches the allow-list: it ends with one of the extensions, case ignored
Matches(name, exts) == \E e \in Range(exts) : EndsWith(Lower(name), e)
\* the allow-list of the source, empty when it has none
AllowList == IF extensions = None THEN <<>> ELSE extensions[1]

\* C1: find_classes returns the names of the immediate subdirectories in
\* ascending lexicographic order, and class_to_idx gives the i-th of them the
\* index i (counted from 0), whatever order the directory was listed in.
C1_FindClassesSorted ==
    IsCall("find_classes") =>
        LET r == direct[1].result
        IN  /\ Range(r.classes) = RootDirs
            /\ Len(r.classes) = Cardinality(RootDirs)
            /\ StrictlySorted(r.classes)
            /\ DOMAIN r.class_to_idx = RootDirs
            /\ \A i \in 1..Len(r.classes) : r.class_to_idx[r.classes[i]] = i - 1

\* find_classes was called on a root whose subdirectories were listed out of order
C1_Witness ==
    /\ IsCall("find_classes")
    /\ Len(direct[1].result.classes) >= 2
    /\ ~StrictlySorted(EntryNames(SelectSeq(fs[<<>>], LAMBDA e : e.isdir)))

\* C2: two loads of the same tree through the same hook emit the same
\* descriptors in the same order, however the filesystem enumerated the
\* directories for each load.
C2_LoadsDeterministic ==
    \A i, j \in 1..Len(loads) :
        /\ loads[i].result.raised = loads[j].result.raised
        /\ loads[i].result.data = loads[j].result.data

\* C3: make_dataset raises exactly when the allow-list and the predicate are
\* both given or both missing, and then nothing was enumerated or returned;
\* PathsDataSource.load_data of a class-labelled directory, which passes only
\* its allow-list, raises exactly when it has none.
C3_MakeDatasetConfigError ==
    /\ IsCall("make_dataset") =>
          LET c == direct[1]
              bad == (c.extensions = None) <=> (c.is_valid_file = "None")
          IN  /\ (c.result.raised = "ValueError") <=> bad
              /\ ~bad => c.result.raised = "no"
              /\ bad => c.result.instances = <<>> /\ c.result.walked = <<>>
    /\ \A i \in 1..Len(loads) :
          (loads[i].hook = "load_data" /\ RootDirs # {}) =>
              /\ (loads[i].result.raised = "ValueError") <=> (extensions = None)
              /\ extensions # None => loads[i].result.raised = "no"
              /\ loads[i].result.raised = "ValueError" => loads[i].result.data = <<>>

\* make_dataset raised with both options given, on a class directory holding a file
C3_Witness ==
    /\ IsCall("make_dataset")
    /\ direct[1].extensions # None /\ direct[1].is_valid_file = "any"
    /\ direct[1].result.raised = "ValueError"
    /\ \E c \in RootDirs : fs[<<c>>] # <<>>

\* C4: load_data of a directory without subdirectories returns one input-only
\* descriptor for each file whose name matches the allow-list and nothing
\* else, and sets neither the labels state nor num_classes.
C4_FlatFolderInputOnly ==
    \A i \in 1..Len(loads) :
        (loads[i].hook = "load_data" /\ RootDirs = {}) =>
            LET r == loads[i].result
            IN  /\ r.meta = NoMeta
                /\ r.state = None /\ labels_state = None
                /\ r.raised = "no" =>
                      /\ \A k \in 1..Len(r.data) : DOMAIN r.data[k] = {"input"}
                      /\ Range(r.data) = {[input |-> Join(ROOT, n)] :
                                            n \in {f \in RootFiles : Matches(f, AllowList)}}
                      /\ \A k, l \in 1..Len(r.data) : k # l => r.data[k] # r.data[l]
                /\ r.raised # "no" => r.data = <<>>

\* load_data returned from a flat folder holding a matching and a non-matching file
C4_Witness ==
    /\ RootDirs = {}
    /\ loads # <<>> /\ loads[1].hook = "load_data" /\ loads[1].result.raised = "no"
    /\ \E f, g \in RootFiles : Matches(f, AllowList) /\ ~Matches(g, AllowList)
    /\ Len(loads[1].result.data) = 1

(***************************************************************************)
(* Properties of the bounding-box sources                                  *)
(***************************************************************************)
IsOut(src) == det_out # None /\ det_out[1].source = src /\ det_out[1].raised = "no"
Out == det_out[1]
ImageIdsOut == [k \in 1..Len(Out.data) |-> Out.data[k].target.image_id]
\* every box of the image is at most one pixel wide or at most one pixel high
AllBoxesTiny(anns) == \A a \in Range(anns) : a.bbox[3] <= 1 \/ a.bbox[4] <= 1
\* the annotations with a positive width and a positive height, in order
Positive(anns) == SelectSeq(anns, LAMBDA a : a.bbox[3] > 0 /\ a.bbox[4] > 0)
\* the strictly increasing maps from the positions of a list of n into 1..m
Embeddings(n, m) ==
    {f \in [1..n -> 1..m] : \A i, j \in 1..n : i < j => f[i] < f[j]}

\* C5: COCODataSource.load_data leaves an image out exactly when the stage is
\* training and each of its annotations is at most one pixel wide or high
\* (also when it has none); every other image yields exactly one sample.
C5_TrainingSkipsTinyImages ==
    IsOut("coco") =>
        /\ Range(ImageIdsOut) =
               {id \in DOMAIN coco.images : ~(stage = "train" /\ AllBoxesTiny(coco.images[id]))}
        /\ \A k, l \in 1..Len(Out.data) : k # l => ImageIdsOut[k] # ImageIdsOut[l]

\* in training, an image whose only box is empty was left out beside one that was kept
C5_Witness ==
    /\ IsOut("coco") /\ stage = "train"
    /\ DOMAIN coco.images = {1, 2}
    /\ Len(coco.images[1]) = 1 /\ coco.images[1][1].bbox[3] = 0
    /\ Len(Out.data) = 1 /\ ImageIdsOut[1] = 2

\* C6: the boxes of an emitted image are [x, y, x+w, y+h] for exactly the
\* annotations [x, y, w, h] with w > 0 and h > 0, in annotation order; the
\* other annotations are dropped and the image is kept.
C6_BoxesConverted ==
    IsOut("coco") =>
        \A k \in 1..Len(Out.data) :
            LET pos == Positive(coco.images[Out.data[k].target.image_id])
            IN  Out.data[k].target.boxes =
                    [i \in 1..Len(pos) |->
                        <<pos[i].bbox[1], pos[i].bbox[2],
                          pos[i].bbox[1] + pos[i].bbox[3], pos[i].bbox[2] + pos[i].bbox[4]>>]

\* [10, 20, 30, 15] came out as [10, 20, 40, 35] next to a dropped annotation
C6_Witness ==
    /\ IsOut("coco")
    /\ \E k \in 1..Len(Out.data) :
          /\ Out.data[k].target.boxes = <<(<<10, 20, 40, 35>>)>>
          /\ Len(coco.images[Out.data[k].target.image_id]) = 2

\* C7 as stated: for both sources the area at the position of a box is the
\* width of the box times its height.
C7_AreaIsWidthTimesHeight ==
    det_out # None =>
        \A k \in 1..Len(Out.data) :
            LET t == Out.data[k].target
            IN  /\ Len(t.area) = Len(t.boxes)
                /\ \A i \in 1..Len(t.boxes) :
                      t.area[i] = (t.boxes[i][3] - t.boxes[i][1]) * (t.boxes[i][4] - t.boxes[i][2])

\* C7 amended: the FiftyOne source emits the width of the box times its
\* height; COCODataSource emits the "area" field of the annotation the box
\* comes from, unchanged.
C7_AreaPerSource ==
    /\ IsOut("fiftyone") =>
          \A k \in 1..Len(Out.data) :
              LET t == Out.data[k].target
              IN  /\ Len(t.area) = Len(t.boxes)
                  /\ \A i \in 1..Len(t.boxes) :
                        t.area[i] =
                            (t.boxes[i][3] - t.boxes[i][1]) * (t.boxes[i][4] - t.boxes[i][2])
    /\ IsOut("coco") =>
          \A k \in 1..Len(Out.data) :
              LET t == Out.data[k].target
                  pos == Positive(coco.images[t.image_id])
              IN  t.area = [i \in 1..Len(pos) |-> pos[i].area]

\* the FiftyOne source emitted a box that is not the whole image
C7_Witness ==
    /\ IsOut("fiftyone")
    /\ \E k \in 1..Len(Out.data) :
          \E i \in 1..Len(Out.data[k].target.boxes) :
              /\ Out.data[k].target.boxes[i][1] > 0
              /\ Out.data[k].target.area[i] > 0

\* C8: with at least one category declared, num_classes is the largest
\* category id plus one, whatever the order of the categories; with none it
\* is not set.
C8_NumClassesIsMaxPlusOne ==
    IsOut("coco") =>
        IF coco.categories = <<>> THEN Out.meta = NoMeta
        ELSE Out.meta = ("num_classes" :>
                           (CHOOSE m \in Range(coco.categories) :
                               \A c \in Range(coco.categories) : c <= m) + 1)

\* C9: in every sample of both sources the boxes, labels, area and iscrowd
\* lists have one length, and the entries at one position come from one
\* annotation (detection) of the image, positions in annotation order.
C9_ListsAligned ==
    /\ IsOut("coco") =>
          \A k \in 1..Len(Out.data) :
              LET t == Out.data[k].target
                  anns == coco.images[t.image_id]
                  n == Len(t.boxes)
              IN  /\ Len(t.labels) = n /\ Len(t.area) = n /\ Len(t.iscrowd) = n
                  /\ n <= Len(anns)
                  /\ \E f \in Embeddings(n, Len(anns)) :
                        \A i \in 1..n :
                            /\ t.boxes[i][1] = anns[f[i]].bbox[1]
                            /\ t.boxes[i][2] = anns[f[i]].bbox[2]
                            /\ t.boxes[i][3] - t.boxes[i][1] = anns[f[i]].bbox[3]
                            /\ t.boxes[i][4] - t.boxes[i][2] = anns[f[i]].bbox[4]
                            /\ t.labels[i] = anns[f[i]].category_id
                            /\ t.area[i] = anns[f[i]].area
                            /\ t.iscrowd[i] = anns[f[i]].iscrowd
    /\ IsOut("fiftyone") =>
          \A k \in 1..Len(Out.data) :
              LET t == Out.data[k].target
                  s == collection.samples[t.image_id]
                  dets == s.detections
                  n == Len(t.boxes)
                  classes == IF collection.classes # <<>> THEN collection.classes
                             ELSE IF collection.default_classes # <<>>
                                  THEN collection.default_classes
                                  ELSE Out.classes
              IN  /\ Len(t.labels) = n /\ Len(t.area) = n /\ Len(t.iscrowd) = n
                  /\ n = Len(dets)
                  /\ \A i \in 1..n :
                        /\ t.boxes[i][1] = dets[i].bounding_box[1] * s.width
                        /\ t.boxes[i][2] = dets[i].bounding_box[2] * s.height
                        /\ t.boxes[i][3] - t.boxes[i][1] = dets[i].bounding_box[3] * s.width
                        /\ t.boxes[i][4] - t.boxes[i][2] = dets[i].bounding_box[4] * s.height
                        /\ classes[t.labels[i] + 1] = dets[i].label
                        /\ t.iscrowd[i] = (IF dets[i].iscrowd = None THEN 0 ELSE 1)

\* a COCO image kept its second annotation only, with its label, area and crowd flag
C9_Witness ==
    /\ IsOut("coco")
    /\ \E k \in 1..Len(Out.data) :
          LET t == Out.data[k].target
              anns == coco.images[t.image_id]
          IN  /\ Len(anns) = 2 /\ Len(t.boxes) = 1
              /\ anns[1].bbox[3] <= 0
              /\ anns[1].category_id # anns[2].category_id
              /\ t.labels = <<anns[2].category_id>>

(***************************************************************************)
(* Properties of generate_dataset                                          *)
(***************************************************************************)
\* the hooks generate_dataset itself called during the g-th call
Dispatched(g) == SelectSeq(history[g].calls, LAMBDA c : c.by = "generate_dataset")

\* C10: a generate_dataset call that loads calls exactly one load hook
\* itself: the hook of its stage when the class defines it, load_data
\* otherwise, and so never the hook of another stage.
C10_OneHookOfTheStage ==
    \A g \in 1..Len(history) :
        history[g].ret = "dataset" =>
            LET own == StageHook(history[g].running_stage)
                d == Dispatched(g)
            IN  /\ Len(d) = 1
                /\ own \in source_cls.defined => d[1].hook = own
                /\ own \notin source_cls.defined => d[1].hook = "load_data"
                /\ d[1].hook \notin StageHooks \ {own}

\* a predicting call on a class that also defines train_load_data ran predict_load_data
C10_Witness ==
    /\ {"train_load_data", "predict_load_data"} \subseteq source_cls.defined
    /\ \E g \in 1..Len(history) :
          /\ history[g].running_stage = "predict"
          /\ history[g].ret = "dataset"
          /\ Dispatched(g) = <<[hook |-> "predict_load_data", by |-> "generate_dataset"]>>

(***************************************************************************)
(* Properties of generate_dataset and to_datasets on an instance           *)
(***************************************************************************)
HasLast == last_call # None
Last == last_call[1]
\* the hooks generate_dataset itself called
ByGenerate(events) == SelectSeq(events, LAMBDA e : e.by = "generate_dataset")
SampleLoads(events) == SelectSeq(events, LAMBDA e : e.fn = "load_sample")
\* the hook the class provides for a stage
HookFor(cls, st) == IF StageHook(st) \in cls.defined THEN StageHook(st) ELSE "load_data"

\* C11: in any sequence of generate_dataset calls on one instance, the hook
\* of each call is the one its class provides for that call's stage, whatever
\* the stages and hooks of the calls before it, and the calls leave nothing
\* on the instance besides its running stage.
C11_HookPerCallStage ==
    /\ \A g \in 1..Len(gen_log) :
          gen_log[g].hook # "None" =>
              gen_log[g].hook = HookFor(self_obj.cls, gen_log[g].running_stage)
    /\ \A g \in 1..Len(gen_log), h \in 1..Len(gen_log) :
          (gen_log[g].running_stage = gen_log[h].running_stage
              /\ gen_log[g].hook # "None" /\ gen_log[h].hook # "None")
          => gen_log[g].hook = gen_log[h].hook
    /\ DOMAIN self_obj.dict = {"_running_stage"}

\* a predicting call ran predict_load_data and the training call after it ran load_data
C11_Witness ==
    /\ Len(gen_log) = 2
    /\ gen_log[1] = [running_stage |-> "predict", hook |-> "predict_load_data"]
    /\ gen_log[2] = [running_stage |-> "train", hook |-> "load_data"]

\* C12: the resolved hook receives the placeholder as second argument exactly
\* when it declares more than one parameter and one of them is named
\* "dataset"; otherwise it receives the data alone.
C12_PlaceholderByDeclaredParameter ==
    (HasLast /\ Last.out.events # <<>>) =>
        LET e == Last.out.events[1]
            ps == self_obj.cls.params[e.fn]
            declared == Len(ps) > 1 /\ \E i \in 1..Len(ps) : ps[i] = "dataset"
        IN  /\ declared => e.args = <<"data", "mock_dataset">> /\ Last.out.mock # None
            /\ ~declared => e.args = <<"data">> /\ Last.out.mock = None

\* a hook whose only parameter is called dataset was called with the data alone
C12_Witness ==
    /\ HasLast
    /\ self_obj.cls.name = "StageSource"
    /\ Last.running_stage = "train"
    /\ Last.out.events # <<>>
    /\ Last.out.events[1].fn = "train_load_data"
    /\ Last.out.events[1].args = <<"data">>

\* the last value the writes give a key
LastWritten(writes, key) ==
    writes[CHOOSE i \in 1..Len(writes) :
              /\ writes[i][1] = key
              /\ \A j \in (i + 1)..Len(writes) : writes[j][1] # key][2]

\* C13: after generate_dataset returned a dataset, every attribute the hook
\* set on the placeholder is an attribute of the dataset with the last value
\* written, and the dataset's data is the hook's result, not the placeholder.
C13_PlaceholderAttributesCopied ==
    (HasLast /\ Last.out.ret = "dataset") =>
        LET ds == Last.out.dataset[1]
            writes == Last.out.writes
        IN  /\ \A i \in 1..Len(writes) :
                  /\ writes[i][1] \in DOMAIN ds.dict
                  /\ ds.dict[writes[i][1]] = LastWritten(writes, writes[i][1])
            /\ ds.data = hook_body.result

\* the call a to_datasets made for its k-th stage
HasTuple == tuple_out # None
Tuple == tuple_out[1]
Absent(data) == data \in {"None", "seq_first_none"}

C15_WrappedBySize ==
    (HasLast /\ Last.out.ret = "dataset") =>
        LET ds == Last.out.dataset[1]
        IN  /\ (ds.type = "AutoDataset") <=> (hook_body.result = "sized")
            /\ hook_body.result \in {"iterable", "not_implemented"} =>
                  ds.type = "IterableAutoDataset"
            /\ ds.running_stage = Last.running_stage

\* a validating call whose hook's result raises NotImplementedError on len() gave a streaming dataset
C15_Witness ==
    /\ HasLast
    /\ hook_body.result = "not_implemented"
    /\ Last.running_stage = "val"
    /\ Last.out.ret = "dataset"
    /\ Last.out.dataset[1].type = "IterableAutoDataset"

\* C16: after generate_dataset, returned or raised, the instance has the
\* running stage it had before; while the hooks ran it had the call's stage.
C16_StageRestored ==
    /\ HasLast =>
          /\ self_obj.dict["_running_stage"] = Last.before.dict["_running_stage"]
          /\ \A i \in 1..Len(Last.out.events) : Last.out.events[i].stage = Last.running_stage
    /\ HasTuple => self_obj.dict["_running_stage"] = Tuple.before.dict["_running_stage"]

\* a training call on an instance in the testing stage whose hook raised
C16_Witness ==
    /\ HasLast
    /\ Last.before.dict["_running_stage"] = "test"
    /\ Last.running_stage = "train"
    /\ Last.out.ret = "raise"
    /\ Last.out.events # <<>>
    /\ self_obj.dict["_running_stage"] = "test"

\* the generate_dataset calls in the state: the last single one, those of to_datasets
CallsMade ==
    (IF HasLast THEN {[running_stage |-> Last.running_stage, out |-> Last.out]} ELSE {})
    \cup (IF HasTuple
          THEN {[running_stage |-> StageOrder[k], out |-> Tuple.out.runs[k]] :
                  k \in 1..Len(Tuple.out.runs)}
          ELSE {})

\* C18: generate_dataset and to_datasets run load_sample in one case only:
\* DatasetDataSource.load_data in the training stage loads the first item
\* once; no other class and no other stage runs load_sample.
C18_LoadSampleOnlyForFirstSample ==
    \A c \in CallsMade :
        LET ran == SampleLoads(c.out.events)
            first_item == /\ self_obj.cls.name = "DatasetDataSource"
                          /\ c.running_stage = "train"
                          /\ c.out.events # <<>>
        IN  /\ first_item => Len(ran) = 1 /\ ran[1].by = "load_data"
            /\ ~first_item => ran = <<>>

\* a training call on a DatasetDataSource ran load_sample once, a call of another stage would not
C18_Witness ==
    /\ HasLast
    /\ self_obj.cls.name = "DatasetDataSource"
    /\ Last.running_stage = "train"
    /\ Len(SampleLoads(Last.out.events)) = 1
    /\ Len(gen_log) = 2
    /\ gen_log[1].running_stage = "val" /\ gen_log[1].hook = "load_data"

\* C18 as stated: no generate_dataset call of any class runs load_sample
C18_NeverLoadsSample ==
    \A c \in CallsMade : SampleLoads(c.out.events) = <<>>

(***************************************************************************)
(* Properties of load_sample                                               *)
(***************************************************************************)
\* C17: load_sample leaves the descriptor it is given as it was, and two
\* calls on the same descriptor return equal samples.
C17_LoadSampleLeavesDescriptor ==
    /\ \A i \in 1..Len(sample_log) :
          sample_log[i].raised = "no" /\ sample_log[i].left = sample_log[i].given
    /\ \A i \in 1..Len(sample_log), j \in 1..Len(sample_log) :
          sample_log[i].index = sample_log[j].index => sample_log[i].ret = sample_log[j].ret

(***************************************************************************)
(* Properties of loading a path that is no directory                       *)
(***************************************************************************)
\* C19: a PathsDataSource given, in any stage, a path that is no directory
\* does not raise and returns input-only descriptors that pass the allow-list.
C19_NonDirectoryFallsBack ==
    (direct # None /\ direct[1].fn = "generate_dataset") =>
        /\ direct[1].result.raised = "no"
        /\ \A k \in 1..Len(direct[1].result.data) :
              /\ DOMAIN direct[1].result.data[k] = {"input"}
              /\ has_file_allowed_extension(direct[1].result.data[k].input, AllowList)

(***************************************************************************)
(* Properties of the style transfer entry points                           *)
(***************************************************************************)
\* C20: StyleTransferPreprocess refuses a validation or test transform, and
\* from_folders refuses the keywords val_folder, val_transform, test_folder
\* and test_transform: the call raises the not-supported error of that phase
\* and nothing has been built.
C20_UnsupportedPhaseRefused ==
    style # None =>
        LET c == style[1]
            val == \/ c.fn = "__init__" /\ c.val_transform = "hooks"
                   \/ c.fn = "from_folders" /\ c.kwargs \cap {"val_folder", "val_transform"} # {}
            test == \/ c.fn = "__init__" /\ c.test_transform = "hooks"
                    \/ c.fn = "from_folders" /\ c.kwargs \cap {"test_folder", "test_transform"} # {}
        IN  /\ val => c.out.raised = "validation" /\ c.out.built = {}
            /\ (test /\ ~val) => c.out.raised = "test" /\ c.out.built = {}

\* from_folders refused a test_transform keyword before building anything
C20_Witness ==
    /\ style # None
    /\ style[1].fn = "from_folders"
    /\ style[1].kwargs = {"test_transform"}
    /\ style[1].out = [raised |-> "test", built |-> {}, image_size |-> None]

(***************************************************************************)
(* Direct calls of has_file_allowed_extension and of                       *)
(* SequenceDataSource.load_data                                            *)
(***************************************************************************)
MaxNameLen == 3        \* characters of a filename
MaxExts == 2           \* extensions in an allow-list
MaxSeq == 2            \* elements of a sequence of inputs or of targets

\* the characters of filenames: ".", "A", "B", "a", "b"
CharPool == {46, 65, 66, 97, 98}
FilenamePool == SeqsUpTo(CharPool, MaxNameLen)

\* allow-lists of the extensions ".a", ".A", "b" and "B"
AllowListPool == SeqsUpTo({<<46, 97>>, <<46, 65>>, <<98>>, <<66>>}, MaxExts)

\* the values of a (inputs, targets) pair: an element, a sequence of elements, None
Item(x) == [kind |-> "item", id |-> x, items |-> <<>>]
List(s) == [kind |-> "list", id |-> 0, items |-> s]
NoneItem == [kind |-> "None", id |-> 0, items |-> <<>>]

InputsPool == {List(s) : s \in SeqsUpTo({Item(1), Item(2)}, MaxSeq)}
TargetsPool == {NoneItem} \cup {List(s) : s \in SeqsUpTo({Item(7), Item(8)}, MaxSeq)}

\* SequenceDataSource.load_data(data, dataset) for a pair data = (inputs, targets):
\* without targets the pair itself is handed to predict_load_data
SequenceDataSource_load_data(data) ==
    LET inputs == data[1]
        targets == data[2]
        zipped == IF Len(inputs.items) <= Len(targets.items)
                  THEN Len(inputs.items) ELSE Len(targets.items)
    IN  IF targets = NoneItem THEN SequencePredictLoadData(data)
        ELSE [i \in 1..zipped |-> [input |-> inputs.items[i], target |-> targets.items[i]]]

InitCalls ==
    /\ PathsIdle
    /\ DetIdle
    /\ HooksIdle
    /\ InstanceIdle
    /\ SamplesIdle
    /\ StyleIdle

\* a direct call of has_file_allowed_extension(filename, extensions)
HasFileAllowedExtension ==
    /\ direct = None
    /\ \E filename \in FilenamePool, exts \in AllowListPool :
          direct' = Some([fn |-> "has_file_allowed_extension",
                          filename |-> filename, extensions |-> exts,
                          result |-> has_file_allowed_extension(filename, exts)])
    /\ UNCHANGED <<fs, extensions, labels, labels_state, loads, detVars, hookVars,
                   instVars, sampleVars, styleVars>>

\* a direct call of SequenceDataSource.load_data((inputs, targets))
SequenceLoad ==
    /\ direct = None
    /\ \E inputs \in InputsPool, targets \in TargetsPool :
          direct' = Some([fn |-> "SequenceDataSource.load_data",
                          inputs |-> inputs, targets |-> targets,
                          result |-> SequenceDataSource_load_data(<<inputs, targets>>)])
    /\ UNCHANGED <<fs, extensions, labels, labels_state, loads, detVars, hookVars,
                   instVars, sampleVars, styleVars>>

NextCalls ==
    \/ HasFileAllowedExtension
    \/ SequenceLoad

SpecCalls == InitCalls /\ [][NextCalls]_vars

(***************************************************************************)
(* Order and matching of the enumerated files                              *)
(***************************************************************************)
\* C21: the pairs returned by make_dataset are in ascending order of class
\* name and, within one class, in ascending order of the full file path, also
\* when the class directory has nested subdirectories.
C21_SortedByClassThenFullPath ==
    (IsCall("make_dataset") /\ direct[1].result.raised = "no") =>
        LET inst == direct[1].result.instances
            classes == find_classes(fs).classes
        IN  \A i, j \in 1..Len(inst) : i < j =>
                \/ StrLess(classes[inst[i][2] + 1], classes[inst[j][2] + 1])
                \/ /\ inst[i][2] = inst[j][2]
                   /\ StrLess(inst[i][1], inst[j][1])

\* the letters of a string are all lowercase
IsLower(s) == s = Lower(s)

\* C22 (as stated): has_file_allowed_extension accepts a filename exactly
\* when the filename ends with one of the extensions of the allow-list, letter
\* case ignored on both sides.
C22_CaseInsensitiveBothSides ==
    IsCall("has_file_allowed_extension") =>
        LET c == direct[1]
        IN  c.result <=> \E e \in Range(c.extensions) : EndsWith(Lower(c.filename), Lower(e))

\* C22: has_file_allowed_extension accepts a filename, whatever the case of
\* its letters, exactly when it ends, letter case ignored, with one of the
\* extensions of the allow-list that are written in lowercase; an extension
\* holding an uppercase letter accepts no filename.
C22_CaseInsensitiveForLowercaseExtensions ==
    IsCall("has_file_allowed_extension") =>
        LET c == direct[1]
        IN  c.result <=> \E e \in Range(c.extensions) :
                            IsLower(e) /\ EndsWith(Lower(c.filename), Lower(e))

\* a filename with an uppercase letter was accepted by an allow-list that also
\* holds an uppercase extension
C22_Witness ==
    /\ IsCall("has_file_allowed_extension")
    /\ direct[1].filename = <<97, 46, 65>>
    /\ direct[1].extensions = <<(<<46, 65>>), (<<46, 97>>)>>
    /\ direct[1].result

\* C23: for a pair (inputs, None) SequenceDataSource.load_data returns one
\* input-only descriptor per element of inputs, in order; for a pair
\* (inputs, targets) it returns the descriptor of inputs[i] and targets[i] for
\* each index i, in order.
C23_SequencePairDescriptors ==
    IsCall("SequenceDataSource.load_data") =>
        LET c == direct[1]
            inputs == c.inputs.items
            targets == c.targets.items
            both == {i \in 1..Len(inputs) : i <= Len(targets)}
        IN  /\ c.targets = NoneItem =>
                  c.result = [i \in 1..Len(inputs) |-> [input |-> inputs[i]]]
            /\ c.targets # NoneItem =>
                  c.result = [i \in both |-> [input |-> inputs[i], target |-> targets[i]]]

(***************************************************************************)
(* Train and predict options of the style transfer entry point             *)
(***************************************************************************)
\* C24: from_folders called with train and predict options only (none of the
\* validation and test keywords, no ready preprocess) builds the preprocess
\* from train_transform and predict_transform and never raises the
\* not-supported error.
C24_TrainPredictOnlyBuilds ==
    (/\ style # None
     /\ style[1].fn = "from_folders"
     /\ ~style[1].preprocess
     /\ style[1].kwargs \cap {"val_folder", "val_transform", "test_folder", "test_transform"} = {})
        => /\ style[1].out.raised = "no"
           /\ "preprocess" \in style[1].out.built

(***************************************************************************)
(* Boxes of the training samples                                           *)
(***************************************************************************)
\* C25: every sample that COCODataSource.load_data emits in the training
\* stage has a non-empty boxes list: an image that passes the training-time
\* image filter has an annotation that passes the per-box filter.
C25_TrainingSamplesHaveBoxes ==
    (IsOut("coco") /\ stage = "train") =>
        \A k \in 1..Len(Out.data) :
            /\ Out.data[k].target.boxes # <<>>
            /\ \E a \in Range(coco.images[Out.data[k].target.image_id]) :
                  ~(a.bbox[3] <= 1 \/ a.bbox[4] <= 1) /\ COCO_keep(a)

\* a training image with a box of width 0 beside a box of 2 by 2 was emitted
\* with the one box that passes the per-box filter
C25_Witness ==
    /\ IsOut("coco") /\ stage = "train"
    /\ \E k \in 1..Len(Out.data) :
          LET anns == coco.images[Out.data[k].target.image_id]
          IN  /\ Len(anns) = 2
              /\ anns[1].bbox = <<3, 5, 0, 2>>
              /\ anns[2].bbox = <<3, 5, 2, 2>>
              /\ Out.data[k].target.boxes = <<(<<3, 5, 5, 7>>)>>

(***************************************************************************)
(* generate_dataset on missing and on empty data                           *)
(***************************************************************************)
\* C26: generate_dataset returns None without running a load hook exactly
\* when data is None or a sequence whose first element is None; for every
\* other data, an empty sequence included, it runs the load hook and returns
\* a dataset without raising.
C26_NoneOrDataset ==
    \A i \in 1..Len(history) :
        LET h == history[i]
        IN  IF h.data \in {"None", "seq_first_none"}
            THEN h.ret = "None" /\ h.calls = <<>>
            ELSE h.ret = "dataset" /\ h.calls # <<>>

====
